---- MODULE Spec2Model ----
(***************************************************************************)
(* A model of src/game.js: the falling-block well (stackedBlocks), the     *)
(* falling piece (currentPiece, class Block), the per-frame handler        *)
(* gameLoop, the keyboard handlers and startGame/endGame.                  *)
(*                                                                         *)
(* The well of the program is 10 columns by 20 rows.  The model keeps the  *)
(* program's formulas (BOARD_WIDTH, BOARD_HEIGHT, OVERDRAFT_Y, ...) and    *)
(* scales the well down: COLS and ROWS are the bounds of the model.        *)
(* Drawing and DOM updates are left out, except the game-over message.     *)
(***************************************************************************)
EXTENDS Integers, Sequences, FiniteSets, TLC

\* ------------------------------------------------------------ bounds
\* Width and height of the well in cells (10 and 20 in the program).
COLS == 3
ROWS == 6
\* Placements explored in one behaviour (blocksPlaced itself is unbounded).
MaxPlacements == 1
\* Date.now() is read on a grid of MaxTimeSteps + 1 instants.
MaxTimeSteps == 1

\* --------------------------------------------------------- constants
CELL_SIZE == 30
BOARD_WIDTH == COLS * CELL_SIZE
BOARD_HEIGHT == ROWS * CELL_SIZE
\* OVERDRAFT_LINE = 0.8 and EXCESS_CASH_LINE = 0.2, as tenths.
OVERDRAFT_LINE == 8
EXCESS_CASH_LINE == 2
OVERDRAFT_Y == (BOARD_HEIGHT * OVERDRAFT_LINE) \div 10
EXCESS_CASH_Y == (BOARD_HEIGHT * EXCESS_CASH_LINE) \div 10
WARNING_TIMER_DURATION == 20000
normalDropInterval == 500
fastDropInterval == 50

\* null, for the numbers that can be null: warningTimer, newRotation, the
\* result of getTopBlockPosition.
null == -1
\* currentPiece = null.
NoPiece == [shape |-> <<>>, type |-> "none", x |-> 0, y |-> 0, rotation |-> 0]

BLOCK_SHAPES ==
    << << <<1>> >>,
       << <<1, 0>>, <<1, 1>> >>,
       << <<0, 1>>, <<1, 1>> >>,
       << <<1, 1>>, <<1, 0>> >>,
       << <<1, 1>>, <<0, 1>> >>,
       << <<1, 1, 1>>, <<0, 1, 0>> >>,
       << <<1, 1>>, <<1, 1>> >> >>

BLOCK_TYPES == {"inflow", "outflow"}

\* The frame deltas a tick is delivered with, and the instants Date.now() returns.
DeltaSet == {0, normalDropInterval \div 2, normalDropInterval}
Times == {k * WARNING_TIMER_DURATION : k \in 0..MaxTimeSteps}

\* The keys the handlers distinguish.
KeySet == {"ArrowLeft", "ArrowRight", "ArrowUp", "ArrowDown"}

VARIABLES
    gameRunning,                  \* let gameRunning
    currentPiece,                 \* let currentPiece (a Block, or NoPiece)
    stackedBlocks,                \* the filled cells: <<row, col>> -> type
    blocksPlaced,                 \* let blocksPlaced
    warningTimer,                 \* null, or the deadline
    hasSolidLayerAboveOverdraft,  \* let hasSolidLayerAboveOverdraft
    dropTime,                     \* let dropTime
    keys,                         \* the held keys gameLoop reads (ArrowDown)
    gameOverMessage,              \* text of .game-over-message ("" before any end)
    balanceDisplay,               \* text of #balance (null: as the page has it)
    now,                          \* the last value read from Date.now()
    placements,                   \* placements so far in this behaviour
    lastTick                      \* what the last call of gameLoop did

vars == <<gameRunning, currentPiece, stackedBlocks, blocksPlaced, warningTimer,
          hasSolidLayerAboveOverdraft, dropTime, keys, gameOverMessage, balanceDisplay,
          now, placements, lastTick>>

\* -------------------------------------------------------------- Block
getWidth(shape) == Len(shape[1])

getHeight(shape) == Len(shape)

\* rotated[i][j] = matrix[rows - 1 - j][i], with indices from 1.
rotate90(matrix) ==
    LET rows == Len(matrix)
        cols == Len(matrix[1])
    IN  [i \in 1..cols |-> [j \in 1..rows |-> matrix[rows + 1 - j][i]]]

RECURSIVE rotateTimes(_, _)
rotateTimes(shape, n) ==
    IF n <= 0 THEN shape ELSE rotateTimes(rotate90(shape), n - 1)

getRotatedShapeWithRotation(block, rotation) ==
    rotateTimes(block.shape, rotation % 4)

getRotatedShape(block) ==
    rotateTimes(block.shape, block.rotation % 4)

\* The <<row, col>> offsets (from 0) of the set entries of a shape.
SetEntries(shape) ==
    {<<row, col>> \in (0..(Len(shape) - 1)) \X (0..(Len(shape[1]) - 1)) :
        shape[row + 1][col + 1] = 1}

\* stackedBlocks[row] is truthy: the row array exists.  A row array is
\* created only together with its first cell and is deleted whole, so it
\* exists exactly when the row holds a cell.
RowExists(board, row) == \E c \in DOMAIN board : c[1] = row

Filled(board, row, col) == <<row, col>> \in DOMAIN board

\* checkCollision without the test of the side walls (line 100).
checkCollision_NoWalls(block, offsetX, offsetY, newRotation, board) ==
    LET shape == IF newRotation # null
                 THEN getRotatedShapeWithRotation(block, newRotation)
                 ELSE getRotatedShape(block)
        newX == block.x + offsetX
        newY == block.y + offsetY
    IN  IF newY + Len(shape) * CELL_SIZE > BOARD_HEIGHT THEN TRUE
        ELSE \E e \in SetEntries(shape) :
                LET boardRow == (newY + e[1] * CELL_SIZE) \div CELL_SIZE
                    boardCol == newX + e[2]
                IN  /\ boardRow >= 0
                    /\ boardRow < ROWS
                    /\ Filled(board, boardRow, boardCol)

checkCollision(block, offsetX, offsetY, newRotation, board) ==
    LET shape == IF newRotation # null
                 THEN getRotatedShapeWithRotation(block, newRotation)
                 ELSE getRotatedShape(block)
        newX == block.x + offsetX
        newY == block.y + offsetY
    IN  IF newX < 0 \/ newX + Len(shape[1]) > COLS THEN TRUE
        ELSE IF newY + Len(shape) * CELL_SIZE > BOARD_HEIGHT THEN TRUE
        ELSE \E e \in SetEntries(shape) :
                LET boardRow == (newY + e[1] * CELL_SIZE) \div CELL_SIZE
                    boardCol == newX + e[2]
                IN  /\ boardRow >= 0
                    /\ boardRow < ROWS
                    /\ Filled(board, boardRow, boardCol)

\* move(dx) without the collision test of line 136.
move_Unchecked(block, dx, board) == [block EXCEPT !.x = block.x + dx]

\* Block.move(dx)
move(block, dx, board) ==
    IF ~checkCollision(block, dx, 0, null, board)
    THEN [block EXCEPT !.x = block.x + dx]
    ELSE block

\* rotate() without the "% 4" of line 143.
rotate_NoWrap(block, board) ==
    LET newRotation == block.rotation + 1
    IN  IF ~checkCollision(block, 0, 0, newRotation, board)
        THEN [block EXCEPT !.rotation = newRotation]
        ELSE block

\* Block.rotate()
rotate(block, board) ==
    LET newRotation == (block.rotation + 1) % 4
    IN  IF ~checkCollision(block, 0, 0, newRotation, board)
        THEN [block EXCEPT !.rotation = newRotation]
        ELSE block

\* createNewPiece with maxX = COLS - 1, whatever the width of the shape.
createNewPiece_AnyColumn ==
    UNION {{[shape |-> BLOCK_SHAPES[shapeIndex], type |-> type, x |-> x,
             y |-> 0, rotation |-> 0] :
               type \in BLOCK_TYPES, x \in 0..(COLS - 1)} :
           shapeIndex \in 1..Len(BLOCK_SHAPES)}

\* The pieces createNewPiece can return: any catalog shape, either type, any
\* x in 0..maxX (Math.random() is an input).
createNewPiece ==
    UNION {{[shape |-> BLOCK_SHAPES[shapeIndex], type |-> type, x |-> x,
             y |-> 0, rotation |-> 0] :
               type \in BLOCK_TYPES,
               x \in 0..(COLS - Len(BLOCK_SHAPES[shapeIndex][1]))} :
           shapeIndex \in 1..Len(BLOCK_SHAPES)}

\* shouldStopPiece testing the position of the piece itself.
shouldStopPiece_AtPosition(block, board) == checkCollision(block, 0, 0, null, board)

shouldStopPiece(block, board) == checkCollision(block, 0, CELL_SIZE, null, board)

\* -------------------------------------------------------------- board
EmptyBoard == [c \in {} |-> "none"]

\* A row is solid: every column of 0..COLS-1 is filled.
isSolid(board, row) == \A col \in 0..(COLS - 1) : Filled(board, row, col)

\* delete stackedBlocks[row]
DeleteRow(board, row) ==
    [c \in {d \in DOMAIN board : d[1] # row} |-> board[c]]

\* stackedBlocks[row + 1] = [...stackedBlocks[row]]; delete stackedBlocks[row]
MoveRowDown(board, row) ==
    LET kept  == {d \in DOMAIN board : d[1] # row /\ d[1] # row + 1}
        moved == {<<row + 1, d[2]>> : d \in {e \in DOMAIN board : e[1] = row}}
    IN  [c \in kept \cup moved |->
            IF c \in moved THEN board[<<row, c[2]>>] ELSE board[c]]

\* The inner loop of clearSolidLayers: for (row = clearedRow - 1; row >= 0; row--)
RECURSIVE ShiftRowsAbove(_, _)
ShiftRowsAbove(board, row) ==
    IF row < 0 THEN board
    ELSE ShiftRowsAbove(IF RowExists(board, row) THEN MoveRowDown(board, row)
                        ELSE board,
                        row - 1)

\* One iteration of "for (let clearedRow of rowsToClear)", board part.
ClearOneRow(board, clearedRow) ==
    LET shifted == ShiftRowsAbove(board, clearedRow - 1)
    IN  IF RowExists(shifted, clearedRow) THEN DeleteRow(shifted, clearedRow)
        ELSE shifted

\* "Adjust indices for subsequent cleared rows"
AdjustIndices(rowsToClear, clearedRow) ==
    [i \in 1..Len(rowsToClear) |->
        IF rowsToClear[i] < clearedRow THEN rowsToClear[i] + 1
        ELSE rowsToClear[i]]

\* The solid rows, in ascending order (rowsToClear after the scan and the sort).
RECURSIVE SolidRowsFrom(_, _)
SolidRowsFrom(board, row) ==
    IF row >= ROWS THEN <<>>
    ELSE (IF RowExists(board, row) /\ isSolid(board, row) THEN <<row>> ELSE <<>>)
         \o SolidRowsFrom(board, row + 1)

\* The outer loop of clearSolidLayers, from the i-th entry of rowsToClear on.
RECURSIVE ClearLoop(_, _, _)
ClearLoop(board, rowsToClear, i) ==
    IF i > Len(rowsToClear) THEN board
    ELSE ClearLoop(ClearOneRow(board, rowsToClear[i]),
                   AdjustIndices(rowsToClear, rowsToClear[i]),
                   i + 1)

\* clearSolidLayers handling the first entry of rowsToClear only.
clearSolidLayers_FirstOnly(board) ==
    LET rowsToClear == SolidRowsFrom(board, 0)
    IN  IF rowsToClear = <<>> THEN board ELSE ClearOneRow(board, rowsToClear[1])

clearSolidLayers(board) == ClearLoop(board, SolidRowsFrom(board, 0), 1)

\* checkSolidLayerAboveOverdraft scanning every row of the board.
checkSolidLayerAboveOverdraft_AnyRow(board) ==
    \E row \in 0..(ROWS - 1) : RowExists(board, row) /\ isSolid(board, row)

checkSolidLayerAboveOverdraft(board) ==
    LET overdraftRow == OVERDRAFT_Y \div CELL_SIZE
    IN  \E row \in 0..(overdraftRow - 1) :
            RowExists(board, row) /\ isSolid(board, row)

getTopBlockPosition(board) ==
    LET ys == {c[1] * CELL_SIZE :
                 c \in {d \in DOMAIN board : /\ d[1] >= 0 /\ d[1] < ROWS
                                             /\ d[2] >= 0 /\ d[2] < COLS}}
        below == {y \in ys : y < BOARD_HEIGHT}
    IN  IF below = {} THEN null
        ELSE CHOOSE y \in below : \A z \in below : y <= z

\* The loop of placeBlock over block.shape instead of the rotated shape.
PlacedCells_Unrotated(block) ==
    {c \in {<<(block.y + e[1] * CELL_SIZE) \div CELL_SIZE, block.x + e[2]>> :
              e \in SetEntries(block.shape)} :
        c[1] >= 0 /\ c[1] < ROWS}

\* The cells the loop of placeBlock writes: the set entries of the rotated
\* shape whose boardRow is inside the well.
PlacedCells(block) ==
    {c \in {<<(block.y + e[1] * CELL_SIZE) \div CELL_SIZE, block.x + e[2]>> :
              e \in SetEntries(getRotatedShape(block))} :
        c[1] >= 0 /\ c[1] < ROWS}

\* The board after the loop of placeBlock, before clearSolidLayers.
WriteCells(block, board) ==
    LET new == PlacedCells(block)
    IN  [c \in DOMAIN board \cup new |->
            IF c \in new THEN block.type ELSE board[c]]

\* placeBlock(block): the board it leaves.
placeBlock(block, board) == clearSolidLayers(WriteCells(block, board))

\* ------------------------------------------------------------ handlers
\* updateBalanceDisplay showing a percentage that starts at 50.
updateBalanceDisplay_Percent(placed) == placed + 50

\* updateBalanceDisplay(): the text it writes into #balance, for the value
\* blocksPlaced has when it is called.
updateBalanceDisplay(placed) == placed

\* What a call of gameLoop did: in its drop step ("ignored" when the game was
\* not running, "wait", "fall", "place", "stackTooHigh"), in its timer step
\* ("none", "armed", "kept", "cleared", "expired"), and how many solid rows
\* clearSolidLayers found (rowsToClear.length).
Did(drop, timer, cleared) == [drop |-> drop, timer |-> timer, cleared |-> cleared]

\* The timer step without the else branch of line 535 (no cancellation).
TimerStep_NoCancel(board, timer, t) ==
    LET topBlockY == getTopBlockPosition(board)
    IN  IF checkSolidLayerAboveOverdraft(board) /\ topBlockY # null
           /\ (topBlockY > OVERDRAFT_Y \/ topBlockY < EXCESS_CASH_Y)
        THEN LET deadline == IF timer = null
                             THEN t + WARNING_TIMER_DURATION
                             ELSE timer
             IN  [warningTimer |-> deadline,
                  ended |-> t >= deadline,
                  what |-> IF t >= deadline THEN "expired"
                           ELSE IF timer = null THEN "armed" ELSE "kept"]
        ELSE [warningTimer |-> timer, ended |-> FALSE, what |-> "none"]

\* The timer step with "now > warningTimer" at line 530.
TimerStep_LateExpiry(board, timer, t) ==
    LET topBlockY == getTopBlockPosition(board)
    IN  IF checkSolidLayerAboveOverdraft(board) /\ topBlockY # null
        THEN IF topBlockY > OVERDRAFT_Y \/ topBlockY < EXCESS_CASH_Y
             THEN LET deadline == IF timer = null
                                  THEN t + WARNING_TIMER_DURATION
                                  ELSE timer
                  IN  [warningTimer |-> deadline,
                       ended |-> t > deadline,
                       what |-> IF t > deadline THEN "expired"
                                ELSE IF timer = null THEN "armed" ELSE "kept"]
             ELSE [warningTimer |-> null, ended |-> FALSE,
                   what |-> IF timer = null THEN "none" ELSE "cleared"]
        ELSE [warningTimer |-> timer, ended |-> FALSE, what |-> "none"]

\* Lines 510-540 of gameLoop: the warning timer, for the board the drop step
\* left, the deadline so far and the instant t that Date.now() returns.
TimerStep(board, timer, t) ==
    LET topBlockY == getTopBlockPosition(board)
    IN  IF checkSolidLayerAboveOverdraft(board) /\ topBlockY # null
        THEN IF topBlockY > OVERDRAFT_Y \/ topBlockY < EXCESS_CASH_Y
             THEN LET deadline == IF timer = null
                                  THEN t + WARNING_TIMER_DURATION
                                  ELSE timer
                  IN  [warningTimer |-> deadline,
                       ended |-> t >= deadline,
                       what |-> IF t >= deadline THEN "expired"
                                ELSE IF timer = null THEN "armed" ELSE "kept"]
             ELSE [warningTimer |-> null, ended |-> FALSE,
                   what |-> IF timer = null THEN "none" ELSE "cleared"]
        ELSE [warningTimer |-> timer, ended |-> FALSE, what |-> "none"]

\* dropInterval with the two intervals exchanged.
dropInterval_Swapped ==
    IF "ArrowDown" \in keys THEN normalDropInterval ELSE fastDropInterval

\* const dropInterval = keys['ArrowDown'] ? fastDropInterval : normalDropInterval
dropInterval == IF "ArrowDown" \in keys THEN fastDropInterval ELSE normalDropInterval

\* The rest of a running tick once the drop step is over (lines 507-548).
AfterDrop(board, t, drop) ==
    LET r == TimerStep(board, warningTimer, t)
    IN  /\ dropTime' = drop.dropTime
        /\ hasSolidLayerAboveOverdraft' = checkSolidLayerAboveOverdraft(board)
        /\ warningTimer' = r.warningTimer
        /\ gameRunning' = ~r.ended
        /\ gameOverMessage' = IF r.ended THEN "Time Limit Exceeded!"
                              ELSE gameOverMessage
        /\ lastTick' = Did(drop.what, r.what, drop.cleared)

\* The handlers without their first line.
Ignoring_Never == FALSE

\* "if (!gameRunning) return;", the first line of gameLoop and of the keydown
\* listener.
Ignoring == ~gameRunning

\* The body of gameLoop for a frame delivered deltaTime after the last one,
\* at which Date.now() returns t.
Tick(deltaTime, t) ==
        IF Ignoring
        THEN /\ lastTick' = Did("ignored", "none", 0)
             /\ UNCHANGED <<gameRunning, currentPiece, stackedBlocks, blocksPlaced,
                            warningTimer, hasSolidLayerAboveOverdraft, dropTime,
                            keys, gameOverMessage, balanceDisplay, now,
                            placements>>
        ELSE
          LET dt == dropTime + deltaTime
          IN  /\ now' = t
              /\ UNCHANGED <<keys, balanceDisplay>>
              /\ IF dt >= dropInterval /\ currentPiece # NoPiece
                 THEN IF shouldStopPiece(currentPiece, stackedBlocks)
                      THEN \E newPiece \in createNewPiece :
                             LET board == placeBlock(currentPiece, stackedBlocks)
                             IN  /\ placements < MaxPlacements
                                 /\ placements' = placements + 1
                                 /\ stackedBlocks' = board
                                 /\ blocksPlaced' = blocksPlaced + 1
                                 /\ currentPiece' = newPiece
                                 /\ IF shouldStopPiece(newPiece, board)
                                    THEN \* endGame('Stack Too High!'); return
                                         /\ gameRunning' = FALSE
                                         /\ gameOverMessage' = "Stack Too High!"
                                         /\ hasSolidLayerAboveOverdraft' =
                                              checkSolidLayerAboveOverdraft(board)
                                         /\ dropTime' = dt
                                         /\ UNCHANGED warningTimer
                                         /\ lastTick' =
                                              Did("stackTooHigh", "none",
                                                  Len(SolidRowsFrom(WriteCells(
                                                      currentPiece, stackedBlocks), 0)))
                                    ELSE AfterDrop(board, t,
                                           [dropTime |-> 0, what |-> "place",
                                            cleared |-> Len(SolidRowsFrom(WriteCells(
                                                currentPiece, stackedBlocks), 0))])
                      ELSE /\ currentPiece' =
                                [currentPiece EXCEPT !.y = currentPiece.y + CELL_SIZE]
                           /\ UNCHANGED <<stackedBlocks, blocksPlaced, placements>>
                           /\ AfterDrop(stackedBlocks, t,
                                        [dropTime |-> 0, what |-> "fall", cleared |-> 0])
                 ELSE /\ UNCHANGED <<currentPiece, stackedBlocks, blocksPlaced,
                                     placements>>
                      /\ AfterDrop(stackedBlocks, t,
                                   [dropTime |-> IF dt >= dropInterval THEN 0 ELSE dt,
                                    what |-> "wait", cleared |-> 0])

\* gameLoop(time): one frame.  deltaTime = time - lastTime is an input.
gameLoop ==
    \E deltaTime \in DeltaSet, t \in {u \in Times : u >= now} : Tick(deltaTime, t)

\* startGame without "stackedBlocks = []" and "blocksPlaced = 0".
startGame_KeepBoard ==
    \E newPiece \in createNewPiece, t \in {u \in Times : u >= now} :
        /\ gameRunning' = TRUE
        /\ warningTimer' = null
        /\ hasSolidLayerAboveOverdraft' = FALSE
        /\ currentPiece' = newPiece
        /\ dropTime' = 0
        /\ now' = t
        /\ UNCHANGED <<stackedBlocks, blocksPlaced, keys, gameOverMessage,
                       placements, lastTick>>
        /\ balanceDisplay' = updateBalanceDisplay(blocksPlaced')

\* startGame(): the click handler of start-btn and restart-btn.
startGame ==
    \E newPiece \in createNewPiece, t \in {u \in Times : u >= now} :
        /\ gameRunning' = TRUE
        /\ stackedBlocks' = EmptyBoard
        /\ blocksPlaced' = 0
        /\ warningTimer' = null
        /\ hasSolidLayerAboveOverdraft' = FALSE
        /\ currentPiece' = newPiece
        /\ dropTime' = 0
        /\ now' = t
        /\ balanceDisplay' = updateBalanceDisplay(blocksPlaced')
        /\ UNCHANGED <<keys, gameOverMessage, placements, lastTick>>

\* The piece a key leaves (lines 607-621).
KeyPiece(key, block, board) ==
    IF block = NoPiece THEN block
    ELSE IF key = "ArrowLeft" THEN move(block, -1, board)
    ELSE IF key = "ArrowRight" THEN move(block, 1, board)
    ELSE IF key = "ArrowUp" THEN rotate(block, board)
    ELSE block

\* The keydown listener.
keydown ==
    \E key \in KeySet :
        IF Ignoring
        THEN UNCHANGED vars
        ELSE /\ keys' = keys \cup ({key} \cap {"ArrowDown"})
             /\ currentPiece' = KeyPiece(key, currentPiece, stackedBlocks)
             /\ UNCHANGED <<gameRunning, stackedBlocks, blocksPlaced, warningTimer,
                            hasSolidLayerAboveOverdraft, dropTime, gameOverMessage,
                            balanceDisplay, now, placements, lastTick>>

\* The keyup listener.
keyup ==
    \E key \in KeySet :
        /\ keys' = keys \ {key}
        /\ UNCHANGED <<gameRunning, currentPiece, stackedBlocks, blocksPlaced,
                       warningTimer, hasSolidLayerAboveOverdraft, dropTime,
                       gameOverMessage, balanceDisplay, now, placements,
                       lastTick>>

\* The state once the script has been loaded (lines 15-30, 601).
Init ==
    /\ gameRunning = FALSE
    /\ currentPiece = NoPiece
    /\ stackedBlocks = EmptyBoard
    /\ blocksPlaced = 0
    /\ warningTimer = null
    /\ hasSolidLayerAboveOverdraft = FALSE
    /\ dropTime = 0
    /\ keys = {}
    /\ gameOverMessage = ""
    /\ balanceDisplay = null
    /\ now = 0
    /\ placements = 0
    /\ lastTick = Did("none", "none", 0)

Next == startGame \/ gameLoop \/ keydown \/ keyup

Spec == Init /\ [][Next]_vars

\* ----------------------------------------------- states in mid-game
\* A board of one-cell inflow pieces stacked in column col up to height h.
ColumnStack(col, h) ==
    [c \in {<<ROWS - k, col>> : k \in 1..h} |-> "inflow"]

\* The stacks a game reaches by dropping h one-cell pieces down one column:
\* no row is ever solid on the way and the spawn check of line 499 passes
\* whenever the next piece is spawned over another column.
StackBoards == {ColumnStack(0, h) : h \in {ROWS - 2}}

\* A running game right after the tick that placed the last of those pieces
\* and spawned a piece that passed the spawn check.
InitMidGame ==
    /\ gameRunning = TRUE
    /\ stackedBlocks \in StackBoards
    /\ currentPiece \in {p \in createNewPiece : ~shouldStopPiece(p, stackedBlocks)}
    /\ blocksPlaced = Cardinality(DOMAIN stackedBlocks)
    /\ warningTimer = null
    /\ hasSolidLayerAboveOverdraft = FALSE
    /\ dropTime = 0
    /\ keys = {}
    /\ gameOverMessage = ""
    /\ balanceDisplay = updateBalanceDisplay(0)
    /\ now = 0
    /\ placements = 0
    /\ lastTick = Did("place", "none", 0)

\* The loaded page, or a game in progress.
InitStack == Init \/ InitMidGame

SpecStack == InitStack /\ [][Next]_vars

\* --------------------------------- gameLoop over any board and deadline
\* Every placement ends by clearing the solid rows, so a game started by
\* startGame never meets a solid row, nor an armed deadline, at a tick.  To
\* exercise lines 510-540 the boards and deadlines below are drawn from all
\* combinations, reachable or not: each row is empty, solid or holds its
\* leftmost cell only.
RowCells(row, pattern) ==
    IF pattern = "solid" THEN {<<row, col>> : col \in 0..(COLS - 1)}
    ELSE IF pattern = "partial" THEN {<<row, 0>>}
    ELSE {}

BoardOf(patterns) ==
    [c \in UNION {RowCells(row, patterns[row]) : row \in 0..(ROWS - 1)} |-> "inflow"]

AnyBoards ==
    {BoardOf(patterns) : patterns \in [0..(ROWS - 1) -> {"empty", "solid", "partial"}]}

AnyDeadlines == {null} \cup {t + WARNING_TIMER_DURATION : t \in Times} \cup Times

\* No piece is falling (the handlers guard "if (currentPiece)") and no
\* placement is explored from these states: placements starts at its cap.
InitBoards ==
    /\ gameRunning = TRUE
    /\ stackedBlocks \in AnyBoards
    /\ currentPiece = NoPiece
    /\ blocksPlaced = 0
    /\ warningTimer \in AnyDeadlines
    /\ hasSolidLayerAboveOverdraft = checkSolidLayerAboveOverdraft(stackedBlocks)
    /\ dropTime = 0
    /\ keys = {}
    /\ gameOverMessage = ""
    /\ balanceDisplay = updateBalanceDisplay(0)
    /\ now = 0
    /\ placements = MaxPlacements
    /\ lastTick = Did("none", "none", 0)

SpecBoards == InitBoards /\ [][Next]_vars

\* -------------------------------------------------------------- claims
\* The words of the claims, stated on the board itself.
Grid == (0..(ROWS - 1)) \X (0..(COLS - 1))

CellAt(board, row, col) ==
    IF <<row, col>> \in DOMAIN board THEN board[<<row, col>>] ELSE "none"

NonEmptyRows(board) == {c[1] : c \in DOMAIN board}

SolidRows(board) ==
    {row \in 0..(ROWS - 1) : \A col \in 0..(COLS - 1) : <<row, col>> \in DOMAIN board}

\* A step in which gameLoop places the landed piece (and spawns the next).
PlacingStep == placements' = placements + 1

\* C1: when the cells written by a placement complete exactly one solid row,
\* at index R, clearSolidLayers removes that row, moves the content of every
\* row r < R to row r + 1 without losing a cell, leaves every row below R as
\* it was, and so leaves one non-empty row less.
C1_SingleSolidRowCleared ==
    [][PlacingStep =>
         LET written == WriteCells(currentPiece, stackedBlocks)
         IN  \A R \in 0..(ROWS - 1) :
               SolidRows(written) = {R} =>
                 /\ \A c \in Grid :
                      CellAt(stackedBlocks', c[1], c[2]) =
                        IF c[1] > R THEN CellAt(written, c[1], c[2])
                        ELSE IF c[1] >= 1 THEN CellAt(written, c[1] - 1, c[2])
                        ELSE "none"
                 /\ Cardinality(NonEmptyRows(stackedBlocks')) =
                      Cardinality(NonEmptyRows(written)) - 1]_vars

\* C2: when the piece spawned by a placement collides with the board at its
\* spawn position, that tick ends the game with 'Stack Too High!'.
C2_SpawnCollisionEndsGame ==
    [][(PlacingStep /\ checkCollision(currentPiece', 0, 0, null, stackedBlocks'))
         => (~gameRunning' /\ gameOverMessage' = "Stack Too High!")]_vars

\* Four calls of rotate() in succession.
Rotate4(block, board) == rotate(rotate(rotate(rotate(block, board), board), board), board)

\* C3, as claimed: four calls of rotate() leave the falling piece in the
\* orientation it had, wherever it is and whatever the board holds.
C3_FourRotationsAlways ==
    (gameRunning /\ currentPiece # NoPiece) =>
        getRotatedShape(Rotate4(currentPiece, stackedBlocks)) =
            getRotatedShape(currentPiece)

\* No orientation of the piece collides where the piece is.
AllRotationsFree(block, board) ==
    \A r \in 0..3 : ~checkCollision(block, 0, 0, r, board)

\* C3, amended: when none of the four orientations collides at the piece's
\* position, four calls of rotate() leave the piece as it was (same rotation
\* count, same rotated shape, same position).
C3_FourRotationsWhenFree ==
    (gameRunning /\ currentPiece # NoPiece
       /\ AllRotationsFree(currentPiece, stackedBlocks)) =>
        /\ Rotate4(currentPiece, stackedBlocks) = currentPiece
        /\ rotate(currentPiece, stackedBlocks).rotation =
             (currentPiece.rotation + 1) % 4

\* C3 witness: a T piece that has been rotated, over a non-empty board, with
\* all four orientations free.
C3_Witness ==
    /\ gameRunning
    /\ currentPiece # NoPiece
    /\ currentPiece.shape = BLOCK_SHAPES[6]
    /\ currentPiece.rotation = 3
    /\ stackedBlocks # EmptyBoard
    /\ AllRotationsFree(currentPiece, stackedBlocks)

\* The cells a placed piece covers, and their number.
CoveredCells(block) ==
    {<<block.y \div CELL_SIZE + e[1], block.x + e[2]>> :
        e \in SetEntries(getRotatedShape(block))}

\* C4, as claimed: after placeBlock every covered cell is filled with the
\* piece's type and the board holds exactly that many cells more.
C4_PlacedCellsFilled ==
    [][PlacingStep =>
         /\ \A c \in CoveredCells(currentPiece) :
              CellAt(stackedBlocks', c[1], c[2]) = currentPiece.type
         /\ Cardinality(DOMAIN stackedBlocks') =
              Cardinality(DOMAIN stackedBlocks)
                + Cardinality(SetEntries(getRotatedShape(currentPiece)))]_vars

\* C4, amended: the same, for a placement that completes no solid row.
C4_PlacedCellsFilledUnlessCleared ==
    [][(PlacingStep /\ SolidRows(WriteCells(currentPiece, stackedBlocks)) = {}) =>
         /\ \A c \in CoveredCells(currentPiece) :
              CellAt(stackedBlocks', c[1], c[2]) = currentPiece.type
         /\ Cardinality(DOMAIN stackedBlocks') =
              Cardinality(DOMAIN stackedBlocks)
                + Cardinality(SetEntries(getRotatedShape(currentPiece)))]_vars

\* C4 witness: a four-cell piece has been placed and nothing was cleared.
C4_Witness ==
    /\ lastTick.drop = "place"
    /\ lastTick.cleared = 0
    /\ blocksPlaced = 1
    /\ Cardinality(DOMAIN stackedBlocks) = 4

\* C5: every filled cell lies inside the well, and a placement never writes
\* a cell that an earlier piece filled.
C5_CellsInBoundsAndDisjoint ==
    [][/\ DOMAIN stackedBlocks \subseteq Grid
       /\ DOMAIN stackedBlocks' \subseteq Grid
       /\ PlacingStep =>
            CoveredCells(currentPiece) \cap DOMAIN stackedBlocks = {}]_vars

\* C5 witness: a second piece has been placed beside the cells of the first.
C5_Witness ==
    /\ lastTick.drop = "place"
    /\ placements = 1
    /\ blocksPlaced > 1
    /\ Cardinality(DOMAIN stackedBlocks) > ROWS - 2

\* C6: while the game is not running, gameLoop and keydown leave the board,
\* the piece, blocksPlaced, the drop timer and the deadline as they are, and
\* only startGame makes the game run again.
C6_IgnoredWhenNotRunning ==
    [][~gameRunning =>
         /\ \/ UNCHANGED <<stackedBlocks, currentPiece, blocksPlaced, dropTime,
                           warningTimer>>
            \/ ~(gameLoop \/ keydown)
         /\ (gameRunning' => startGame)]_vars

\* C6 witness: a tick was delivered to an ended game.
C6_Witness ==
    /\ ~gameRunning
    /\ gameOverMessage = "Stack Too High!"
    /\ lastTick.drop = "ignored"

\* The top occupied row, as a pixel y (the board is not empty).
TopY(board) ==
    CELL_SIZE * (CHOOSE row \in NonEmptyRows(board) :
                    \A other \in NonEmptyRows(board) : row <= other)

\* The top occupied row is inside the safe band, or outside of it.
InBand(board) ==
    /\ DOMAIN board # {}
    /\ EXCESS_CASH_Y <= TopY(board)
    /\ TopY(board) <= OVERDRAFT_Y

OutOfBand(board) ==
    /\ DOMAIN board # {}
    /\ (TopY(board) > OVERDRAFT_Y \/ TopY(board) < EXCESS_CASH_Y)

\* A fully solid row exists above the overdraft row.
SolidAbove(board) ==
    \E row \in SolidRows(board) : row < OVERDRAFT_Y \div CELL_SIZE

\* The tick ends the game with 'Time Limit Exceeded!'.
TimeLimitEnd ==
    gameRunning /\ ~gameRunning' /\ gameOverMessage' = "Time Limit Exceeded!"

C8_ArmedExactlyWhen ==
    [][(gameRunning /\ warningTimer = null /\ gameLoop) =>
         /\ (warningTimer' # null) <=>
               (SolidAbove(stackedBlocks') /\ OutOfBand(stackedBlocks'))
         /\ (warningTimer' # null) =>
               warningTimer' = now' + WARNING_TIMER_DURATION]_vars

\* C8 witness: a tick has armed the deadline.
C8_Witness ==
    /\ lastTick.timer = "armed"
    /\ warningTimer = now + WARNING_TIMER_DURATION
    /\ SolidAbove(stackedBlocks)
    /\ OutOfBand(stackedBlocks)

CandidateCols(block, offsetX, rotation) ==
    {block.x + offsetX + e[2] :
        e \in SetEntries(getRotatedShapeWithRotation(block, rotation))}

\* C10: checkCollision is true for every candidate position and rotation
\* with an occupied column left of column 0 or right of column COLS - 1.
C10_OutsideWallsCollides ==
    (currentPiece # NoPiece) =>
        \A offsetX \in (0 - COLS)..COLS, offsetY \in {0, CELL_SIZE},
           rotation \in 0..3 :
            (\E col \in CandidateCols(currentPiece, offsetX, rotation) :
                col < 0 \/ col >= COLS)
              => /\ checkCollision(currentPiece, offsetX, offsetY, rotation,
                                   stackedBlocks)
                 /\ (rotation = currentPiece.rotation =>
                       checkCollision(currentPiece, offsetX, offsetY, null,
                                      stackedBlocks))

\* C10 witness: a falling piece against the left wall, over a non-empty board.
C10_Witness ==
    /\ gameRunning
    /\ currentPiece # NoPiece
    /\ currentPiece.x = 0
    /\ currentPiece.y > 0
    /\ stackedBlocks # EmptyBoard

\* The cells a piece covers, and whether the piece collides in the words of
\* the claims: one of its cells lies outside the well or on a filled cell.
Collides(block, board) ==
    \E c \in CoveredCells(block) : c \notin Grid \/ c \in DOMAIN board

\* C11: move(dx) yields the piece at column x + dx when that piece does not
\* collide and the unchanged piece otherwise; rotate() yields the piece at
\* rotation (r + 1) % 4 when that piece does not collide and the unchanged
\* piece otherwise; so move leaves row and rotation and rotate leaves column
\* and row (both yield the piece alone: the board is no part of their result).
C11_MoveRotateOrNoOp ==
    (gameRunning /\ currentPiece # NoPiece) =>
        /\ \A dx \in {-1, 1} :
             LET moved == [currentPiece EXCEPT !.x = currentPiece.x + dx]
             IN  move(currentPiece, dx, stackedBlocks) =
                   IF Collides(moved, stackedBlocks) THEN currentPiece ELSE moved
        /\ LET turned == [currentPiece EXCEPT
                            !.rotation = (currentPiece.rotation + 1) % 4]
           IN  rotate(currentPiece, stackedBlocks) =
                 IF Collides(turned, stackedBlocks) THEN currentPiece ELSE turned
        /\ \A key \in KeySet :
             LET piece == KeyPiece(key, currentPiece, stackedBlocks)
             IN  /\ piece.y = currentPiece.y
                 /\ piece.shape = currentPiece.shape
                 /\ piece.x # currentPiece.x =>
                      piece.rotation = currentPiece.rotation

\* C11 witness: a piece beside filled cells whose move to the left is
\* rejected, whose move to the right is applied and whose rotation is rejected.
C11_Witness ==
    /\ gameRunning
    /\ currentPiece # NoPiece
    /\ stackedBlocks # EmptyBoard
    /\ currentPiece.x > 0
    /\ move(currentPiece, -1, stackedBlocks) = currentPiece
    /\ move(currentPiece, 1, stackedBlocks) # currentPiece
    /\ rotate(currentPiece, stackedBlocks) = currentPiece

\* The one-cell piece at column 0 over the empty board, no key held.
OneCellAtColumn0 ==
    /\ gameRunning
    /\ currentPiece # NoPiece
    /\ currentPiece.shape = BLOCK_SHAPES[1]
    /\ currentPiece.x = 0
    /\ stackedBlocks = EmptyBoard
    /\ keys = {}

\* C12: for the one-cell piece at column 0 over the empty board with no key
\* held, a tick that brings the accumulated drop timer to 500 ms moves the
\* piece down by exactly CELL_SIZE while it is above the bottom row and
\* places it at <<ROWS - 1, 0>> once it is on the bottom row; a tick that
\* leaves the drop timer below 500 ms leaves piece and board as they are.
C12_OneCellDescent ==
    [][\A deltaTime \in DeltaSet, t \in Times :
         (OneCellAtColumn0 /\ Tick(deltaTime, t)) =>
            IF dropTime + deltaTime < normalDropInterval
            THEN UNCHANGED <<currentPiece, stackedBlocks>>
            ELSE IF currentPiece.y < (ROWS - 1) * CELL_SIZE
            THEN /\ currentPiece' =
                      [currentPiece EXCEPT !.y = currentPiece.y + CELL_SIZE]
                 /\ stackedBlocks' = EmptyBoard
            ELSE /\ currentPiece.y = (ROWS - 1) * CELL_SIZE
                 /\ DOMAIN stackedBlocks' = {<<ROWS - 1, 0>>}
                 /\ stackedBlocks'[<<ROWS - 1, 0>>] = currentPiece.type]_vars

\* C12 witness: the one-cell piece has been placed on the bottom row at
\* column 0 of the empty board, after ROWS - 1 descents.
C12_Witness ==
    /\ lastTick.drop = "place"
    /\ blocksPlaced = 1
    /\ keys = {}
    /\ DOMAIN stackedBlocks = {<<ROWS - 1, 0>>}

\* The drop interval of the claims: 500 ms, or 50 ms while soft drop is held.
HeldInterval == IF "ArrowDown" \in keys THEN 50 ELSE 500

\* What a tick does to piece and board: nothing, one descent by one cell, or
\* one placement (one more block placed, the next piece at row 0).
NoDrop == UNCHANGED <<currentPiece, stackedBlocks, blocksPlaced>>

OneDescent ==
    /\ currentPiece' = [currentPiece EXCEPT !.y = currentPiece.y + CELL_SIZE]
    /\ UNCHANGED <<stackedBlocks, blocksPlaced>>

OnePlacement ==
    /\ blocksPlaced' = blocksPlaced + 1
    /\ currentPiece' \in createNewPiece

\* The tick ends the game with 'Stack Too High!'.
StackTooHighEnd ==
    gameRunning /\ ~gameRunning' /\ gameOverMessage' = "Stack Too High!"

\* A step that leaves the piece, moves it down or places a block: what a
\* tick can do.  The other steps of a running game are key moves (same row,
\* board, counter and drop timer) and restarts.
DropOrWait ==
    \/ currentPiece' = currentPiece
    \/ currentPiece'.y > currentPiece.y
    \/ blocksPlaced' = blocksPlaced + 1

KeyMove ==
    /\ currentPiece'.y = currentPiece.y
    /\ currentPiece'.shape = currentPiece.shape
    /\ UNCHANGED <<stackedBlocks, blocksPlaced, dropTime>>

Restart ==
    /\ stackedBlocks' = EmptyBoard
    /\ blocksPlaced' = 0
    /\ dropTime' = 0
    /\ currentPiece' \in createNewPiece

\* C13, as claimed: a tick of a running game with a falling piece drops
\* (places or descends) only if the accumulated drop timer has reached the
\* interval; a tick whose timer has reached it does exactly one placement or
\* one descent and leaves the drop timer at 0; no step does more.
C13_OneDropPerInterval ==
    [][(gameRunning /\ currentPiece # NoPiece) =>
         /\ DropOrWait \/ KeyMove \/ Restart
         /\ \A deltaTime \in DeltaSet :
              (keys' = keys /\ DropOrWait /\ vars' # vars
                 /\ Tick(deltaTime, now')) =>
                 IF dropTime + deltaTime < HeldInterval
                 THEN NoDrop /\ dropTime' = dropTime + deltaTime
                 ELSE (OneDescent \/ OnePlacement) /\ dropTime' = 0]_vars

\* C13, amended: the same, except that the tick whose placement ends the
\* game with 'Stack Too High!' leaves the drop timer at its accumulated value.
C13_OneDropPerIntervalUnlessEnded ==
    [][(gameRunning /\ currentPiece # NoPiece) =>
         /\ DropOrWait \/ KeyMove \/ Restart
         /\ \A deltaTime \in DeltaSet :
              (keys' = keys /\ DropOrWait /\ vars' # vars
                 /\ Tick(deltaTime, now')) =>
                 IF dropTime + deltaTime < HeldInterval
                 THEN NoDrop /\ dropTime' = dropTime + deltaTime
                 ELSE /\ OneDescent \/ OnePlacement
                      /\ dropTime' = IF StackTooHighEnd /\ OnePlacement
                                     THEN dropTime + deltaTime ELSE 0]_vars

\* C13 witness: a tick has placed the piece while soft drop was held, and the
\* game goes on with the drop timer at 0.
C13_Witness ==
    /\ gameRunning
    /\ lastTick.drop = "place"
    /\ "ArrowDown" \in keys
    /\ dropTime = 0
    /\ blocksPlaced > 0

\* The pieces of the claim: a catalog shape, a kind, row 0, rotation 0 and a
\* column at which the shape fits between the walls.
SpawnPieces ==
    {p \in [shape : {BLOCK_SHAPES[i] : i \in 1..7},
            type : {"inflow", "outflow"},
            x : 0..(COLS - 1), y : {0}, rotation : {0}] :
        p.x + getWidth(p.shape) <= COLS}

\* A step that spawns a piece: a placement, or startGame.
SpawnStep ==
    \/ PlacingStep
    \/ /\ gameRunning'
       /\ blocksPlaced' = 0
       /\ dropTime' = 0
       /\ stackedBlocks' = EmptyBoard
       /\ startGame

\* C14: the piece a placement or startGame spawns is one of SpawnPieces, and
\* createNewPiece can return every one of them.
C14_SpawnedPieces ==
    [][/\ SpawnStep => currentPiece' \in SpawnPieces
       /\ SpawnPieces \subseteq createNewPiece]_vars

\* C14 witness: a placement has spawned a piece at the rightmost column at
\* which its shape fits.
C14_Witness ==
    /\ gameRunning
    /\ lastTick.drop = "place"
    /\ currentPiece \in SpawnPieces
    /\ getWidth(currentPiece.shape) > 1
    /\ currentPiece.x = COLS - getWidth(currentPiece.shape)
    /\ currentPiece.x > 0

\* C15: whatever the state it is called in, startGame leaves a running game
\* with an empty board, blocksPlaced = 0, no deadline, the solid-layer flag
\* false, the drop timer at 0 and a newly spawned piece at row 0.
C15_StartGameResets ==
    [][startGame =>
         /\ gameRunning'
         /\ stackedBlocks' = EmptyBoard
         /\ blocksPlaced' = 0
         /\ warningTimer' = null
         /\ hasSolidLayerAboveOverdraft' = FALSE
         /\ dropTime' = 0
         /\ currentPiece' \in SpawnPieces]_vars

\* C15 witness: a game that ended with 'Stack Too High!' has been started
\* again (the message element keeps its text, hidden); C15_WitnessDeadline is
\* the same for a game that ended on an expired deadline.
C15_Witness ==
    /\ gameRunning
    /\ gameOverMessage = "Stack Too High!"
    /\ stackedBlocks = EmptyBoard
    /\ blocksPlaced = 0
    /\ currentPiece \in SpawnPieces

C15_WitnessDeadline ==
    /\ gameRunning
    /\ gameOverMessage = "Time Limit Exceeded!"
    /\ stackedBlocks = EmptyBoard
    /\ warningTimer = null
    /\ currentPiece \in SpawnPieces

\* The balance of Variant A after a placement: 2 per cell of the piece, added
\* for an inflow and subtracted for an outflow piece, clamped to 0..100.
Clamp(n) == IF n < 0 THEN 0 ELSE IF n > 100 THEN 100 ELSE n

BalanceAfter(balance, block) ==
    LET cellCount == Cardinality(SetEntries(getRotatedShape(block)))
    IN  Clamp(IF block.type = "inflow" THEN balance + 2 * cellCount
              ELSE balance - 2 * cellCount)

\* A game is started from Idle or Ended.
StartStep == ~gameRunning /\ gameRunning'

C17_NoSolidRowNoDeadline ==
    /\ SolidRows(stackedBlocks) = {}
    /\ hasSolidLayerAboveOverdraft = FALSE
    /\ warningTimer = null
    /\ gameOverMessage \in {"", "Stack Too High!"}
    /\ lastTick.timer = "none"

\* C17 witness: a placement has completed two rows at once and the game goes on.
C17_Witness ==
    /\ gameRunning
    /\ lastTick.drop = "place"
    /\ lastTick.cleared = 2
    /\ SolidRows(stackedBlocks) = {}

\* The same for clearSolidLayers alone, on any board (SpecBoards): whatever
\* rows are solid, adjacent or not, none is solid afterwards.
C17_ClearLeavesNoSolidRow ==
    SolidRows(clearSolidLayers(stackedBlocks)) = {}

\* C18: in a running game no cell of the falling piece is a filled cell of
\* the board.
C18_PieceNeverOverlaps ==
    (gameRunning /\ currentPiece # NoPiece) =>
        CoveredCells(currentPiece) \cap DOMAIN stackedBlocks = {}

\* C19: the falling piece lies inside the well: its columns between the
\* walls, its row a non-negative multiple of CELL_SIZE, its lowest row not
\* below the floor, its rotation one of 0..3.
C19_PieceInsideWell ==
    (currentPiece # NoPiece) =>
        LET shape == getRotatedShape(currentPiece)
        IN  /\ currentPiece.x >= 0
            /\ currentPiece.x + getWidth(shape) <= COLS
            /\ currentPiece.y >= 0
            /\ currentPiece.y % CELL_SIZE = 0
            /\ currentPiece.y + getHeight(shape) * CELL_SIZE <= BOARD_HEIGHT
            /\ currentPiece.rotation \in 0..3
            /\ CoveredCells(currentPiece) \subseteq Grid

\* C19 witness: a piece in its fourth orientation rests on the floor against
\* the right wall.
C19_Witness ==
    /\ gameRunning
    /\ currentPiece # NoPiece
    /\ currentPiece.rotation = 3
    /\ currentPiece.x > 0
    /\ currentPiece.x + getWidth(getRotatedShape(currentPiece)) = COLS
    /\ currentPiece.y + getHeight(getRotatedShape(currentPiece)) * CELL_SIZE
         = BOARD_HEIGHT

\* The drop events a piece can still see before it must be placed: one per
\* row between the piece and the bottom row.
DropsLeft(block) == (ROWS - 1) - block.y \div CELL_SIZE

\* C20: a falling piece has at most ROWS - 1 descents left; a drop event (a
\* tick whose accumulated drop timer has reached the interval) places the
\* piece or takes one of them; a key input gives none back, whatever the
\* moves and rotations.  So the ROWS-th drop event after the spawn, at the
\* latest, places the piece.
C20_PlacedWithinRowsDrops ==
    [][(gameRunning /\ currentPiece # NoPiece) =>
         /\ DropsLeft(currentPiece) \in 0..(ROWS - 1)
         /\ PlacingStep \/ Restart
              \/ DropsLeft(currentPiece') <= DropsLeft(currentPiece)
         /\ \A deltaTime \in DeltaSet :
              (keys' = keys /\ DropOrWait /\ vars' # vars
                 /\ dropTime + deltaTime >= HeldInterval
                 /\ Tick(deltaTime, now')) =>
                 \/ PlacingStep
                 \/ DropsLeft(currentPiece') = DropsLeft(currentPiece) - 1]_vars

\* C20 witness: a piece that was rotated on its way (a single placement that
\* fills three rows is the T shape upright) has been placed.
C20_Witness ==
    /\ lastTick.drop = "place"
    /\ blocksPlaced = 1
    /\ Cardinality(NonEmptyRows(stackedBlocks)) = 3

\* --------------------------------------------------------------- C21
\* A tick arms the deadline: it was null and the tick leaves it set.
ArmingStep == gameRunning /\ warningTimer = null /\ warningTimer' # null

\* C21: on every board on which checkSolidLayerAboveOverdraft is true,
\* getTopBlockPosition is not null and not greater than OVERDRAFT_Y; and a
\* tick that arms the deadline finds the top block above the excess cash
\* line, never below the overdraft line.
C21_SolidAboveKeepsTopAboveOverdraft ==
    /\ [](checkSolidLayerAboveOverdraft(stackedBlocks) =>
            /\ getTopBlockPosition(stackedBlocks) # null
            /\ getTopBlockPosition(stackedBlocks) <= OVERDRAFT_Y)
    /\ [][ArmingStep =>
            /\ getTopBlockPosition(stackedBlocks') # null
            /\ getTopBlockPosition(stackedBlocks') < EXCESS_CASH_Y
            /\ ~(getTopBlockPosition(stackedBlocks') > OVERDRAFT_Y)]_vars

\* C21 witness: a tick has armed the deadline on a board that holds a solid
\* row above the overdraft row and also cells below the overdraft line.
C21_Witness ==
    /\ lastTick.timer = "armed"
    /\ warningTimer # null
    /\ checkSolidLayerAboveOverdraft(stackedBlocks)
    /\ \E c \in DOMAIN stackedBlocks : c[1] * CELL_SIZE > OVERDRAFT_Y
    /\ getTopBlockPosition(stackedBlocks) < EXCESS_CASH_Y

====
